---- MODULE Spec2Model ----
(***************************************************************************)
(* The telemetry simulation and alerting engine of vite-project/src/App.jsx *)
(* as a state machine: the readings mapping (useIoTData), the tick and      *)
(* live-history interval timers, the threshold store (App, handleSave),     *)
(* the alert evaluation (getDeviceCurrentData), the historical window       *)
(* (createHistoricalData) and the CSV exporter (convertToCsv).              *)
(*                                                                          *)
(* Numbers.  A reading or threshold x is held as the integer                *)
(* x * 10 * Tenth, so 0.1 is Tenth units and values that are not multiples  *)
(* of 0.1 (the unrounded seeds, the random increments) exist in the model.  *)
(* Math.random() is a stream of draws r in 0 .. 10*Tenth-1 standing for     *)
(* r / (10*Tenth) in [0, 1); the streams the model enumerates are           *)
(* RandomStreams.                                                           *)
(*                                                                          *)
(* Time.  The clock advances in steps of Quantum ms.  An armed timer holds  *)
(* the ms left until it is due (due at 0 or below); Elapse advances the     *)
(* clock when no armed timer is due.  Two timers due at the same clock      *)
(* reading fire in either order.                                            *)
(*                                                                          *)
(* Timestamps.  Date.now() exceeds 32 bits, so a timestamp is the pair      *)
(* [day, ms]: whole days since the epoch and the ms within that day (UTC).  *)
(* Text is a sequence of one-character strings.                             *)
(*                                                                          *)
(* The historical tab reads and writes nothing the simulation reads or      *)
(* writes.  Spec is the simulation with the thresholds and the live         *)
(* monitor and holds the chart's window fixed; SpecHistory is the range     *)
(* selection, SpecCsv the export, SpecBuffer the live buffer's updater.     *)
(* SpecRunning is the simulation under edits and saves that never end,      *)
(* with the fairness of a browser's timers.                                 *)
(*                                                                          *)
(* State that only the display reads (the login form's fields and error,    *)
(* the success banner of a save and its 3 s timeout, the chart's device     *)
(* selection) is left out.                                                  *)
(*                                                                          *)
(* React.  A handler, the re-render it causes and the effects of that       *)
(* render are one action.  React may invoke a state updater function more   *)
(* than once for one update (twice under StrictMode in a development        *)
(* build); the tick updater is not pure, so the number of invocations is    *)
(* part of the Tick action (UpdaterInvocations).                            *)
(***************************************************************************)
EXTENDS Integers, Sequences, FiniteSets, TLC

\* ------------------------------------------------------------ bounds
\* model units per 0.1 (resolution of the unrounded values)
Tenth == 3
\* the clock advances in steps of Quantum ms
Quantum == 2500
\* the clock stops after MaxPeriods interval periods
MaxPeriods == 2
\* user events (login, logout, tab, input, save, toggle) in one behaviour
MaxEvents == 5

\* the delay both setInterval calls are given, in ms
IntervalMs == 5000

MaxTime == MaxPeriods * IntervalMs

VARIABLES
    view,              \* App: 'landing' | 'dashboard' (the login form is not modelled)
    activeTab,         \* DashboardLayout: 'live' | 'threshold' | 'historical'
    thresholds,        \* App: the active ThresholdSet
    tickThresholds,    \* useIoTData: the thresholds the armed tick callback closes over
    iotThresholds,     \* localStorage item 'iotThresholds': NoItem, or <<its text>>
    localThresholds,   \* ThresholdSettingsTab: the draft form
    localIsActive,     \* Object.is(localThresholds, thresholds)
    validationError,   \* ThresholdSettingsTab: null or the message
    deviceData,        \* useIoTData: device id -> {temp, humidity, status}
    liveDataHistory,   \* LiveMonitorTab: the last 10 points
    tickTimer,         \* useIoTData interval: ms until due, or Cleared
    liveTimer,         \* LiveMonitorTab interval: ms until due, or Cleared
    now,               \* the clock, in ms
    uncaught,          \* "none", or the error that unmounted the React tree
    tickCount,         \* history: ticks fired
    ticksSinceAppend,  \* history: ticks fired since the live monitor mounted or last appended
    events,            \* history: user events so far
    lastCall,          \* history: the handler or callback that ran last, with its argument
    appended,          \* history: the points appended since the live monitor mounted
    appendedFor,       \* history: the device each of them was read from
    timeRange,         \* HistoricalDataTab: the selected range
    dateNow,           \* Date.now() as createHistoricalData last read it
    historicalData,    \* useIoTData: the chart's window of points
    downloads,         \* <<>>, or <<the CSV text handed to downloadCsv last>>
    committed          \* history: <<>>, or <<the ThresholdSet committed last>>

vars == <<view, activeTab, thresholds, tickThresholds, iotThresholds, localThresholds, localIsActive,
          validationError, deviceData, liveDataHistory, tickTimer, liveTimer, now,
          uncaught, tickCount, ticksSinceAppend, events, lastCall, appended, appendedFor,
          timeRange, dateNow, historicalData, downloads, committed>>

\* the state of the historical tab
historicalVars == <<timeRange, dateNow, historicalData, downloads>>

\* ------------------------------------------------------------ numbers
Min(a, b) == IF a <= b THEN a ELSE b
Max(a, b) == IF a >= b THEN a ELSE b

\* the number n/10 (n in tenths) in model units
Num(n) == n * Tenth

\* parseFloat(x.toFixed(1)): the nearest multiple of 0.1, a tie away from zero
toFixed1(x) ==
    IF x >= 0 THEN Tenth * ((2 * x + Tenth) \div (2 * Tenth))
    ELSE 0 - Tenth * ((2 * (0 - x) + Tenth) \div (2 * Tenth))

\* ------------------------------------------------------------ constants
INITIAL_DEVICES ==
    << [id |-> "dev-001", status |-> TRUE],
       [id |-> "dev-002", status |-> TRUE],
       [id |-> "dev-003", status |-> FALSE] >>

DeviceIds == { INITIAL_DEVICES[i].id : i \in 1..Len(INITIAL_DEVICES) }

DEFAULT_THRESHOLDS ==
    [temp |-> [min |-> Num(180), max |-> Num(250)],
     humidity |-> [min |-> Num(400), max |-> Num(600)]]

\* localStorage.getItem: no item (null), or <<the stored ThresholdSet>>
NoItem == <<>>
\* the interval timers an effect has armed, oldest first, each the ms until
\* it is due: <<>> when none is armed, <<ms>> after setInterval
Cleared == <<>>
setInterval == <<IntervalMs>>
Due(timer) == \E i \in 1..Len(timer) : timer[i] <= 0
Run(timer, ms) == [i \in 1..Len(timer) |-> timer[i] - ms]

\* mutant of clearInterval: the timer is left armed
clearIntervalLeak(timers) == timers

\* the effect's cleanup, clearInterval(intervalId): the timer the last run of
\* the effect armed is released
clearInterval(timers) ==
    IF timers = Cleared THEN Cleared ELSE SubSeq(timers, 1, Len(timers) - 1)

\* mutant of tickEffect: the effect runs again without the cleanup
tickEffectNoCleanup(timers) == timers \o setInterval

\* mutant of tickClosure: the callback keeps the thresholds it was created with
tickClosureStale(captured, newThresholds) == captured

\* the thresholds the callback of the tick effect closes over once the effect
\* has run again for a new thresholds object
tickClosure(captured, newThresholds) == newThresholds

\* the tick effect run again for new dependencies: the cleanup of the
\* previous run, then setInterval
tickEffect(timers) == clearInterval(timers) \o setInterval

\* ------------------------------------------------------------ Math.random
StreamLen == 2 * Len(INITIAL_DEVICES)

\* the streams of draws the model enumerates: all lowest, all highest
RandomStreams ==
    LET lo == 0
        hi == 10 * Tenth - 1
    IN  { [i \in 1..StreamLen |-> lo],
          [i \in 1..StreamLen |-> hi] }

\* ------------------------------------------------------------ useIoTData
\* 22.5 + (Math.random() * 5 - 2.5) and 50 + (Math.random() * 10 - 5), not rounded
seedTemp(r) == Num(225) + (5 * r - Num(25))
seedHumidity(r) == Num(500) + (10 * r - Num(50))

\* useState initializer: every device draws its temperature, then its humidity
initialData(rnd) ==
    [id \in DeviceIds |->
        LET i == CHOOSE j \in 1..Len(INITIAL_DEVICES) : INITIAL_DEVICES[j].id = id
        IN  [temp |-> seedTemp(rnd[2 * i - 1]),
             humidity |-> seedHumidity(rnd[2 * i]),
             status |-> INITIAL_DEVICES[i].status]]

\* mutant of clampTemp: the lower bound is dropped
clampTempNoFloor(x, th) == Min(th.temp.max + Num(50), x)

\* Math.max(thresholds.temp.min - 5, Math.min(thresholds.temp.max + 5, x))
clampTemp(x, th) == Max(th.temp.min - Num(50), Min(th.temp.max + Num(50), x))

\* Math.max(thresholds.humidity.min - 10, Math.min(thresholds.humidity.max + 10, x))
clampHumidity(x, th) == Max(th.humidity.min - Num(100), Min(th.humidity.max + Num(100), x))

\* the clamp applied to temp + (Math.random() * 1 - 0.5)
walkTemp(temp, th, r) == clampTemp(temp + (r - Num(5)), th)

\* the clamp applied to humidity + (Math.random() * 2 - 1)
walkHumidity(humidity, th, r) == clampHumidity(humidity + (2 * r - Num(10)), th)

\* the body of initialDevices.forEach in the tick updater, for one device:
\* the walk when powered, then the rounding whatever the status
tickDevice(cur, th, rT, rH) ==
    LET walked == IF cur.status
                  THEN [cur EXCEPT !.temp = walkTemp(cur.temp, th, rT),
                                   !.humidity = walkHumidity(cur.humidity, th, rH)]
                  ELSE cur
    IN  [walked EXCEPT !.temp = toFixed1(walked.temp),
                       !.humidity = toFixed1(walked.humidity)]

\* initialDevices.forEach: device i onwards, k the index of the next draw;
\* only a powered device consumes draws
RECURSIVE forEachDevice(_, _, _, _, _)
forEachDevice(newData, th, rnd, i, k) ==
    IF i > Len(INITIAL_DEVICES) THEN newData
    ELSE LET id == INITIAL_DEVICES[i].id
             cur == newData[id]
         IN  forEachDevice([newData EXCEPT ![id] = tickDevice(cur, th, rnd[k], rnd[k + 1])],
                           th, rnd, i + 1, IF cur.status THEN k + 2 ELSE k)

\* one invocation of the updater passed to setDeviceData by the interval.
\* newData is a shallow copy: the device objects are those of prevData and are
\* assigned in place, so the result is also what prevData's objects now hold
tickUpdater(prevData, th, rnd) == forEachDevice(prevData, th, rnd, 1, 1)

\* what a mapping obtained before the updater ran shows after it: newData =
\* { ...prevData } copies the references to the device objects, so newData[id]
\* and prevData[id] are one object and the assignments to newData[id].temp and
\* newData[id].humidity are seen through prevData; status is not assigned
prevDataAfter(prevData, newData) ==
    [id \in DOMAIN prevData |->
        [prevData[id] EXCEPT !.temp = newData[id].temp,
                             !.humidity = newData[id].humidity]]

\* how many times React runs the updater for one update
UpdaterInvocations == {1, 2}

\* the updater of toggleStatus: prevData[deviceId].status of a missing entry
\* is a property read of undefined and throws
toggleThrows(prevData, deviceId) == deviceId \notin DOMAIN prevData

\* mutant of toggleUpdater: the flag is cleared instead of negated
toggleUpdaterOff(prevData, deviceId) ==
    [prevData EXCEPT ![deviceId] = [prevData[deviceId] EXCEPT !.status = FALSE]]

\* { ...prevData, [deviceId]: { ...prevData[deviceId], status: !status } }
toggleUpdater(prevData, deviceId) ==
    [prevData EXCEPT ![deviceId] = [prevData[deviceId] EXCEPT !.status = ~prevData[deviceId].status]]

\* mutant of getDeviceCurrentData: a reading on a bound alerts
getDeviceCurrentDataInclusive(data, th, deviceId) ==
    IF deviceId \notin DOMAIN data
    THEN [temp |-> 0, humidity |-> 0, status |-> FALSE]
    ELSE LET d == data[deviceId]
         IN  [temp |-> d.temp,
              humidity |-> d.humidity,
              status |-> d.status,
              tempAlert |-> d.temp >= th.temp.max \/ d.temp <= th.temp.min,
              humidityAlert |-> d.humidity >= th.humidity.max \/ d.humidity <= th.humidity.min]

\* getDeviceCurrentData over the rendered deviceData and thresholds
getDeviceCurrentData(data, th, deviceId) ==
    IF deviceId \notin DOMAIN data
    THEN [temp |-> 0, humidity |-> 0, status |-> FALSE]
    ELSE LET d == data[deviceId]
         IN  [temp |-> d.temp,
              humidity |-> d.humidity,
              status |-> d.status,
              tempAlert |-> d.temp > th.temp.max \/ d.temp < th.temp.min,
              humidityAlert |-> d.humidity > th.humidity.max \/ d.humidity < th.humidity.min]

\* ------------------------------------------------------------ LiveMonitorTab
\* devices.find(d => getDeviceCurrentData(d.id).status)?.id || devices[0].id
activeDeviceId(data, th) ==
    LET on == { i \in 1..Len(INITIAL_DEVICES) :
                    getDeviceCurrentData(data, th, INITIAL_DEVICES[i].id).status }
    IN  IF on = {} THEN INITIAL_DEVICES[1].id
        ELSE INITIAL_DEVICES[CHOOSE i \in on : \A j \in on : i <= j].id

\* toLocaleTimeString with minute and second: the second within the hour
toLocaleTimeString(t) == (t \div 1000) % 3600

\* mutant of sliceLast9: slice(-10), one element too many is kept
sliceLast10(prev) ==
    IF Len(prev) <= 10 THEN prev ELSE SubSeq(prev, Len(prev) - 9, Len(prev))

\* prev.slice(-9): the last 9 elements, all of them when there are fewer
sliceLast9(prev) ==
    IF Len(prev) <= 9 THEN prev ELSE SubSeq(prev, Len(prev) - 8, Len(prev))

\* the updater passed to setLiveDataHistory: [...prev.slice(-9), newDataPoint]
liveHistoryUpdater(prev, newDataPoint) == sliceLast9(prev) \o <<newDataPoint>>

\* ------------------------------------------------------------ ThresholdSettingsTab
TempError == "Temperature max limit must be greater than min limit."
HumidityError == "Humidity max limit must be greater than min limit."

\* mutant of validate: nothing is checked
validateNothing(local) == "null"

\* mutant of validate: the humidity check is missing
validateTempOnly(local) ==
    IF local.temp.max <= local.temp.min THEN TempError ELSE "null"

\* handleSave's validation: null, or the message of the first failing check
validate(local) ==
    IF local.temp.max <= local.temp.min THEN TempError
    ELSE IF local.humidity.max <= local.humidity.min THEN HumidityError
    ELSE "null"

\* handleChange: name is "<type>-<limit>", value the parsed input
changeField(prev, type, limit, value) ==
    [prev EXCEPT ![type] = [prev[type] EXCEPT ![limit] = value]]

\* ------------------------------------------------------------ createHistoricalData
\* ms in a day and in an hour: the two values of step
DayMs == 86400000
HourMs == 3600000

\* the timestamp whose day part may be any integer and ms part any integer
normalize(day, ms) == [day |-> day + (ms \div DayMs), ms |-> ms % DayMs]

\* t + ms and t - k * stepMs on timestamps
plusMs(t, ms) == normalize(t.day, t.ms + ms)
minusMs(t, k, stepMs) == normalize(t.day - k * (stepMs \div DayMs), t.ms - k * (stepMs % DayMs))

\* a - b in ms, for timestamps less than 24 days apart
diffMs(a, b) == (a.day - b.day) * DayMs + (a.ms - b.ms)

notBefore(a, b) == a.day > b.day \/ (a.day = b.day /\ a.ms >= b.ms)

\* the switch on range
count(range) ==
    CASE range = "7d" -> 168
      [] range = "3m" -> 30 * 3
      [] OTHER -> 24

\* mutant of step: every range steps by the hour
stepHourly(range) == HourMs

\* range === '3m' ? 86400000 : range === '7d' ? 3600000 : 3600000
step(range) == IF range = "3m" THEN DayMs ELSE IF range = "7d" THEN HourMs ELSE HourMs

\* toLocaleTimeString with hour and minute, in UTC: the minute within the day
toLocaleHourMinute(t) == t.ms \div 60000

\* the loop for i = 0 .. count - 1; point i draws its temperature, then its humidity
createHistoricalData(range, currentTimestamp, rnd) ==
    [j \in 1..count(range) |->
        LET i == j - 1
            timestamp == minusMs(currentTimestamp, count(range) - i, step(range))
        IN  [timestamp |-> timestamp,
             time |-> toLocaleHourMinute(timestamp),
             temp |-> toFixed1(Num(150) + 15 * rnd[2 * i + 1]),
             humidity |-> toFixed1(Num(300) + 45 * rnd[2 * i + 2])]]

\* ------------------------------------------------------------ convertToCsv
Digits == <<"0", "1", "2", "3", "4", "5", "6", "7", "8", "9">>

\* the decimal digits of n >= 0, and its last w digits with leading zeros
RECURSIVE digits(_)
digits(n) == IF n < 10 THEN <<Digits[n + 1]>> ELSE Append(digits(n \div 10), Digits[(n % 10) + 1])
RECURSIVE padStart(_, _)
padStart(n, w) == IF w = 0 THEN <<>> ELSE Append(padStart(n \div 10, w - 1), Digits[(n % 10) + 1])

\* Number to string as Array.prototype.join does it, for a multiple of 0.1
\* (createHistoricalData stores no other): 20 gives "20", 15.5 gives "15.5"
numberToString(x) ==
    LET tenths == IF x >= 0 THEN x \div Tenth ELSE (0 - x) \div Tenth
    IN  (IF x < 0 THEN <<"-">> ELSE <<>>)
        \o digits(tenths \div 10)
        \o (IF tenths % 10 = 0 THEN <<>> ELSE <<".", Digits[(tenths % 10) + 1]>>)

\* the civil date of a day number (proleptic Gregorian, day 0 = 1970-01-01)
civil(day) ==
    LET z == day + 719468
        era == z \div 146097
        doe == z - era * 146097
        yoe == (doe - (doe \div 1460) + (doe \div 36524) - (doe \div 146096)) \div 365
        doy == doe - (365 * yoe + (yoe \div 4) - (yoe \div 100))
        mp == (5 * doy + 2) \div 153
        m == IF mp < 10 THEN mp + 3 ELSE mp - 9
    IN  [year |-> yoe + era * 400 + (IF m <= 2 THEN 1 ELSE 0),
         month |-> m,
         date |-> doy - ((153 * mp + 2) \div 5) + 1]

\* new Date(timestamp).toISOString(), for the years 0000 to 9999:
\* YYYY-MM-DDTHH:mm:ss.sssZ
toISOString(t) ==
    LET c == civil(t.day)
    IN  padStart(c.year, 4) \o <<"-">> \o padStart(c.month, 2) \o <<"-">> \o padStart(c.date, 2)
        \o <<"T">> \o padStart(t.ms \div HourMs, 2)
        \o <<":">> \o padStart((t.ms \div 60000) % 60, 2)
        \o <<":">> \o padStart((t.ms \div 1000) % 60, 2)
        \o <<".">> \o padStart(t.ms % 1000, 3) \o <<"Z">>

\* Array.prototype.join
RECURSIVE join(_, _)
join(fields, sep) ==
    IF Len(fields) = 0 THEN <<>>
    ELSE IF Len(fields) = 1 THEN fields[1]
    ELSE fields[1] \o sep \o join(Tail(fields), sep)

headers ==
    << <<"T", "i", "m", "e", "s", "t", "a", "m", "p">>,
       <<"T", "e", "m", "p", "e", "r", "a", "t", "u", "r", "e">>,
       <<"H", "u", "m", "i", "d", "i", "t", "y">> >>

\* rows.forEach(row => csvContent += row.join(',') + '\n'), from row i on
RECURSIVE forEachRow(_, _, _)
forEachRow(csvContent, rows, i) ==
    IF i > Len(rows) THEN csvContent
    ELSE forEachRow(csvContent \o join(rows[i], <<",">>) \o <<"\n">>, rows, i + 1)

\* mutant of convertToCsv: the header is written for an empty sequence too
convertToCsvHeaderAlways(data) ==
    LET rows == [i \in 1..Len(data) |->
                    <<toISOString(data[i].timestamp),
                      numberToString(data[i].temp),
                      numberToString(data[i].humidity)>>]
    IN  forEachRow(join(headers, <<",">>) \o <<"\n">>, rows, 1)

convertToCsv(data) ==
    IF Len(data) = 0 THEN <<>>
    ELSE LET rows == [i \in 1..Len(data) |->
                         <<toISOString(data[i].timestamp),
                           numberToString(data[i].temp),
                           numberToString(data[i].humidity)>>]
         IN  forEachRow(join(headers, <<",">>) \o <<"\n">>, rows, 1)

\* ------------------------------------------------------------ JSON, localStorage
\* the pieces of text between the occurrences of the character sep
RECURSIVE split(_, _)
split(text, sep) ==
    IF \A i \in 1..Len(text) : text[i] # sep THEN <<text>>
    ELSE LET i == CHOOSE k \in 1..Len(text) :
                      text[k] = sep /\ \A j \in 1..(k - 1) : text[j] # sep
         IN  <<SubSeq(text, 1, i - 1)>> \o split(SubSeq(text, i + 1, Len(text)), sep)

isDigits(text) ==
    Len(text) > 0 /\ \A i \in 1..Len(text) : \E d \in 1..10 : Digits[d] = text[i]

RECURSIVE parseInt(_)
parseInt(text) ==
    IF Len(text) = 0 THEN 0
    ELSE 10 * parseInt(SubSeq(text, 1, Len(text) - 1))
         + (CHOOSE d \in 0..9 : Digits[d + 1] = text[Len(text)])

\* text is a decimal numeral with at most one digit after the point
isNumberText(text) ==
    LET body == IF Len(text) > 0 /\ text[1] = "-" THEN Tail(text) ELSE text
        parts == split(body, ".")
    IN  /\ Len(parts) \in {1, 2}
        /\ isDigits(parts[1])
        /\ Len(parts) = 2 => (isDigits(parts[2]) /\ Len(parts[2]) = 1)

\* the number a numeral denotes, in model units
parseFloat(text) ==
    LET neg == text[1] = "-"
        parts == split(IF neg THEN Tail(text) ELSE text, ".")
        tenths == 10 * parseInt(parts[1]) + (IF Len(parts) = 2 THEN parseInt(parts[2]) ELSE 0)
    IN  IF neg THEN 0 - Num(tenths) ELSE Num(tenths)

\* JSON.stringify of a ThresholdSet, its keys in insertion order
JSONstringify(th) ==
    <<"{", "\"", "t", "e", "m", "p", "\"", ":", "{", "\"", "m", "i", "n", "\"", ":">> \o numberToString(th.temp.min)
    \o <<",", "\"", "m", "a", "x", "\"", ":">> \o numberToString(th.temp.max)
    \o <<"}", ",", "\"", "h", "u", "m", "i", "d", "i", "t", "y", "\"", ":", "{", "\"", "m", "i", "n", "\"", ":">> \o numberToString(th.humidity.min)
    \o <<",", "\"", "m", "a", "x", "\"", ":">> \o numberToString(th.humidity.max)
    \o <<"}", "}">>

\* the characters a numeral is made of
isNumeralChar(c) == c \in {"-", "."} \/ \E d \in 1..10 : Digits[d] = c

\* the maximal runs of numeral characters of text, in order, cur the run being read
RECURSIVE numerals(_, _, _)
numerals(text, i, cur) ==
    IF i > Len(text) THEN (IF cur = <<>> THEN <<>> ELSE <<cur>>)
    ELSE IF isNumeralChar(text[i]) THEN numerals(text, i + 1, Append(cur, text[i]))
    ELSE (IF cur = <<>> THEN <<>> ELSE <<cur>>) \o numerals(text, i + 1, <<>>)

\* JSON.parse of the text of a ThresholdSet
JSONparse(text) ==
    LET n == numerals(text, 1, <<>>)
    IN  [temp |-> [min |-> parseFloat(n[1]), max |-> parseFloat(n[2])],
         humidity |-> [min |-> parseFloat(n[3]), max |-> parseFloat(n[4])]]

\* mutant of setItem: the write is lost
setItemLost(item, value) == item

\* localStorage.setItem('iotThresholds', value): the item holds value
setItem(item, value) == <<value>>

\* ------------------------------------------------------------ inputs
\* ThresholdSets an earlier session may have committed and left in localStorage
LowSet ==
    [temp |-> [min |-> Num(50), max |-> Num(100)],
     humidity |-> [min |-> Num(200), max |-> Num(300)]]
HighSet ==
    [temp |-> [min |-> Num(300), max |-> Num(350)],
     humidity |-> [min |-> Num(650), max |-> Num(800)]]
PersistedAtStart == {NoItem, <<JSONstringify(LowSet)>>, <<JSONstringify(HighSet)>>}

\* values typed into a threshold input (type=number, step=0.1)
ThresholdInputs == {Num(150)}

\* ids toggleStatus is called with: the registry's, and one that is not in it
ToggleInputs == DeviceIds \cup {"dev-999"}

Tabs == {"live", "threshold", "historical"}

\* Date.now() when the application mounts: 2026-11-01T00:30:00.000Z
StartNow == [day |-> 20758, ms |-> 1800000]

\* the streams of draws createHistoricalData is run with: all lowest, all
\* highest, and one that varies from draw to draw
HistoryStreams ==
    { [k \in 1..(2 * 168) |-> 0],
      [k \in 1..(2 * 168) |-> 10 * Tenth - 1],
      [k \in 1..(2 * 168) |-> (7 * k) % (10 * Tenth)] }

\* ------------------------------------------------------------ the state machine
LiveMounted == uncaught = "none" /\ view = "dashboard" /\ activeTab = "live"
ThresholdMounted == view = "dashboard" /\ activeTab = "threshold"

\* saved ? JSON.parse(saved) : DEFAULT_THRESHOLDS
loadThresholds(item) ==
    IF item = NoItem THEN DEFAULT_THRESHOLDS ELSE JSONparse(item[1])

InitApp ==
    /\ view = "landing"
    /\ activeTab = "live"
    /\ iotThresholds \in PersistedAtStart
    /\ thresholds = loadThresholds(iotThresholds)
    /\ tickThresholds = thresholds
    /\ localThresholds = thresholds
    /\ localIsActive = TRUE
    /\ validationError = "null"
    /\ deviceData \in { initialData(rnd) : rnd \in RandomStreams }
    /\ liveDataHistory = <<>>
    /\ tickTimer = setInterval
    /\ liveTimer = Cleared
    /\ now = 0
    /\ uncaught = "none"
    /\ tickCount = 0
    /\ ticksSinceAppend = 0
    /\ events = 0
    /\ lastCall = <<>>
    /\ appended = <<>>
    /\ appendedFor = <<>>
    /\ committed = <<>>

\* useState(createHistoricalData('24h')) and the historical tab before any use
InitHistorical(rnd) ==
    /\ timeRange = "24h"
    /\ dateNow = StartNow
    /\ historicalData = createHistoricalData("24h", dateNow, rnd)
    /\ downloads = <<>>

Init == InitApp /\ InitHistorical([k \in 1..(2 * 168) |-> 0])

\* login with the right credentials: the dashboard mounts on its 'live' tab
login ==
    /\ uncaught = "none"
    /\ appended' = <<>>
    /\ appendedFor' = <<>>
    /\ lastCall' = <<"login">>
    /\ events < MaxEvents
    /\ events' = events + 1
    /\ view = "landing"
    /\ view' = "dashboard"
    /\ activeTab' = "live"
    /\ liveDataHistory' = <<>>
    /\ liveTimer' = setInterval
    /\ ticksSinceAppend' = 0
    /\ UNCHANGED <<thresholds, iotThresholds, localThresholds, localIsActive, validationError,
                   deviceData, tickTimer, now, uncaught, tickCount>>
    /\ UNCHANGED historicalVars
    /\ UNCHANGED <<committed, tickThresholds>>

\* logout: the dashboard and its tab unmount
logout ==
    /\ uncaught = "none"
    /\ appended' = <<>>
    /\ appendedFor' = <<>>
    /\ lastCall' = <<"logout">>
    /\ events < MaxEvents
    /\ events' = events + 1
    /\ view = "dashboard"
    /\ view' = "landing"
    /\ activeTab' = "live"
    /\ liveDataHistory' = <<>>
    /\ liveTimer' = Cleared
    /\ localThresholds' = thresholds
    /\ localIsActive' = TRUE
    /\ validationError' = "null"
    /\ ticksSinceAppend' = 0
    /\ UNCHANGED <<thresholds, iotThresholds, deviceData, tickTimer, now, uncaught, tickCount>>
    /\ UNCHANGED historicalVars
    /\ UNCHANGED <<committed, tickThresholds>>

\* TabButton onClick: the shown tab unmounts (its state and timer go), tabKey mounts
setActiveTab(tabKey) ==
    /\ uncaught = "none"
    /\ appended' = <<>>
    /\ appendedFor' = <<>>
    /\ lastCall' = <<"setActiveTab", tabKey>>
    /\ events < MaxEvents
    /\ events' = events + 1
    /\ view = "dashboard"
    /\ tabKey # activeTab
    /\ activeTab' = tabKey
    /\ liveDataHistory' = <<>>
    /\ liveTimer' = IF tabKey = "live" THEN setInterval ELSE Cleared
    /\ localThresholds' = thresholds
    /\ localIsActive' = TRUE
    /\ validationError' = "null"
    /\ ticksSinceAppend' = 0
    /\ UNCHANGED <<view, thresholds, iotThresholds, deviceData, tickTimer, now, uncaught,
                   tickCount>>
    /\ UNCHANGED historicalVars
    /\ UNCHANGED <<committed, tickThresholds>>

\* ThresholdSettingsTab.handleChange: a new draft object, the error cleared
handleChangeBody(type, limit, value) ==
    /\ uncaught = "none"
    /\ lastCall' = <<"handleChange", type, limit>>
    /\ ThresholdMounted
    /\ localThresholds' = changeField(localThresholds, type, limit, value)
    /\ localIsActive' = FALSE
    /\ validationError' = "null"
    /\ UNCHANGED <<view, activeTab, thresholds, iotThresholds, deviceData, liveDataHistory,
                   tickTimer, liveTimer, uncaught>>
    /\ UNCHANGED <<appended, appendedFor, historicalVars>>
    /\ UNCHANGED <<committed, tickThresholds>>

handleChange(type, limit, value) ==
    /\ events < MaxEvents
    /\ events' = events + 1
    /\ handleChangeBody(type, limit, value)
    /\ UNCHANGED <<now, tickCount, ticksSinceAppend>>

\* ThresholdSettingsTab.handleSave, with App.setThresholds and the effects of
\* the render it causes: a new thresholds object re-creates the tick interval
\* and the draft is reset to it; the same object causes no render
handleSaveBody ==
    /\ uncaught = "none"
    /\ lastCall' = <<"handleSave">>
    /\ ThresholdMounted
    /\ LET err == validate(localThresholds)
       IN  IF err # "null"
           THEN /\ validationError' = err
                /\ UNCHANGED <<thresholds, tickThresholds, iotThresholds, localIsActive,
                               tickTimer, committed>>
           ELSE /\ validationError' = "null"
                /\ thresholds' = localThresholds
                /\ iotThresholds' = setItem(iotThresholds, JSONstringify(localThresholds))
                /\ committed' = <<localThresholds>>
                /\ localIsActive' = TRUE
                /\ tickTimer' = IF localIsActive THEN tickTimer ELSE tickEffect(tickTimer)
                /\ tickThresholds' = IF localIsActive THEN tickThresholds
                                     ELSE tickClosure(tickThresholds, localThresholds)
    /\ UNCHANGED <<view, activeTab, localThresholds, deviceData, liveDataHistory, liveTimer,
                   uncaught>>
    /\ UNCHANGED <<appended, appendedFor, historicalVars>>

handleSave ==
    /\ events < MaxEvents
    /\ events' = events + 1
    /\ handleSaveBody
    /\ UNCHANGED <<now, tickCount, ticksSinceAppend>>

\* toggleStatus(deviceId) from the live monitor. A throwing updater is an
\* uncaught render error: React unmounts the tree and both intervals are cleared
toggleStatus(deviceId) ==
    /\ uncaught = "none"
    /\ lastCall' = <<"toggleStatus", deviceId>>
    /\ events < MaxEvents
    /\ events' = events + 1
    /\ LiveMounted
    /\ IF toggleThrows(deviceData, deviceId)
       THEN /\ uncaught' = "TypeError"
            /\ tickTimer' = clearInterval(tickTimer)
            /\ liveTimer' = clearInterval(liveTimer)
            /\ UNCHANGED deviceData
       ELSE /\ deviceData' = toggleUpdater(deviceData, deviceId)
            /\ liveTimer' = setInterval
            /\ UNCHANGED <<uncaught, tickTimer>>
    /\ UNCHANGED <<view, activeTab, thresholds, iotThresholds, localThresholds, localIsActive,
                   validationError, liveDataHistory, now, tickCount, ticksSinceAppend>>
    /\ UNCHANGED <<appended, appendedFor, historicalVars>>
    /\ UNCHANGED <<committed, tickThresholds>>

\* the setInterval callback of useIoTData with the render it causes: deviceData
\* is a new object, so getDeviceCurrentData changes and a mounted live monitor
\* re-creates its interval. The timer that fired is due again a period later.
\* setDeviceData of an unmounted tree runs no updater
TickBody ==
    /\ lastCall' = <<"Tick">>
    /\ \E i \in 1..Len(tickTimer) :
          /\ tickTimer[i] <= 0
          /\ tickTimer' = [tickTimer EXCEPT ![i] = IntervalMs]
    /\ IF uncaught = "none"
       THEN \E n \in UpdaterInvocations, rnd1 \in RandomStreams, rnd2 \in RandomStreams :
               LET once == tickUpdater(deviceData, tickThresholds, rnd1)
               IN  deviceData' = IF n = 1 THEN once
                                 ELSE tickUpdater(prevDataAfter(deviceData, once),
                                                  tickThresholds, rnd2)
       ELSE UNCHANGED deviceData
    /\ liveTimer' = IF LiveMounted THEN setInterval ELSE liveTimer
    /\ UNCHANGED <<view, activeTab, thresholds, iotThresholds, localThresholds, localIsActive,
                   validationError, liveDataHistory, uncaught>>
    /\ UNCHANGED <<appended, appendedFor, historicalVars>>
    /\ UNCHANGED <<committed, tickThresholds>>

Tick ==
    /\ TickBody
    /\ tickCount' = tickCount + 1
    /\ ticksSinceAppend' = IF LiveMounted THEN ticksSinceAppend + 1 ELSE ticksSinceAppend
    /\ UNCHANGED <<events, now>>

\* the setInterval callback of LiveMonitorTab: append the selected device's
\* reading. setLiveDataHistory of an unmounted tree runs no updater
LiveTick ==
    /\ lastCall' = <<"LiveTick">>
    /\ \E i \in 1..Len(liveTimer) :
          /\ liveTimer[i] <= 0
          /\ liveTimer' = [liveTimer EXCEPT ![i] = IntervalMs]
    /\ IF uncaught = "none"
       THEN LET cur == getDeviceCurrentData(deviceData, thresholds,
                                            activeDeviceId(deviceData, thresholds))
                newDataPoint == [time |-> toLocaleTimeString(now),
                                 temp |-> cur.temp,
                                 humidity |-> cur.humidity]
            IN  /\ liveDataHistory' = liveHistoryUpdater(liveDataHistory, newDataPoint)
                /\ appended' = Append(appended, newDataPoint)
                /\ appendedFor' = Append(appendedFor, activeDeviceId(deviceData, thresholds))
                /\ ticksSinceAppend' = 0
       ELSE UNCHANGED <<liveDataHistory, appended, appendedFor, ticksSinceAppend>>
    /\ UNCHANGED <<view, activeTab, thresholds, iotThresholds, localThresholds, localIsActive,
                   validationError, deviceData, tickTimer, now, uncaught, tickCount>>
    /\ UNCHANGED <<events, historicalVars>>
    /\ UNCHANGED <<committed, tickThresholds>>

\* Quantum ms pass: no armed timer is due
ElapseBody ==
    /\ lastCall' = <<"Elapse">>
    /\ ~Due(tickTimer)
    /\ ~Due(liveTimer)
    /\ tickTimer' = Run(tickTimer, Quantum)
    /\ liveTimer' = Run(liveTimer, Quantum)
    /\ UNCHANGED <<view, activeTab, thresholds, iotThresholds, localThresholds, localIsActive,
                   validationError, deviceData, liveDataHistory, uncaught>>
    /\ UNCHANGED <<appended, appendedFor, historicalVars>>
    /\ UNCHANGED <<committed, tickThresholds>>

Elapse ==
    /\ now + Quantum <= MaxTime
    /\ now' = now + Quantum
    /\ ElapseBody
    /\ UNCHANGED <<events, tickCount, ticksSinceAppend>>

Next ==
    \/ login
    \/ logout
    \/ \E tabKey \in Tabs : setActiveTab(tabKey)
    \/ \E type \in {"temp", "humidity"}, limit \in {"min", "max"}, value \in ThresholdInputs :
          handleChange(type, limit, value)
    \/ handleSave
    \/ \E deviceId \in ToggleInputs : toggleStatus(deviceId)
    \/ Tick
    \/ LiveTick
    \/ Elapse

Spec == Init /\ [][Next]_vars

\* ------------------------------------------------------------ the live history buffer alone
\* appends applied to the buffer in one behaviour
MaxAppends == 11

\* temperatures of the points appended
BufferTemps == {Num(215), Num(220)}

\* setLiveDataHistory with the interval's updater, one call
setLiveDataHistory(newDataPoint) ==
    /\ Len(appended) < MaxAppends
    /\ liveDataHistory' = liveHistoryUpdater(liveDataHistory, newDataPoint)
    /\ appended' = Append(appended, newDataPoint)
    /\ appendedFor' = Append(appendedFor, activeDeviceId(deviceData, thresholds))
    /\ lastCall' = <<"setLiveDataHistory">>
    /\ UNCHANGED <<view, activeTab, thresholds, iotThresholds, localThresholds, localIsActive,
                   validationError, deviceData, tickTimer, liveTimer, now, uncaught,
                   tickCount, ticksSinceAppend, events>>
    /\ UNCHANGED historicalVars
    /\ UNCHANGED <<committed, tickThresholds>>

\* one state of the application, for the specifications of a single function
InitFixed ==
    /\ InitApp
    /\ iotThresholds = NoItem
    /\ deviceData = initialData([i \in 1..StreamLen |-> 0])

InitBuffer == InitFixed /\ InitHistorical([k \in 1..(2 * 168) |-> 0])

\* the k-th point is stamped k periods after the mount
NextBuffer ==
    \E temp \in BufferTemps :
       setLiveDataHistory([time |-> toLocaleTimeString((Len(appended) + 1) * IntervalMs),
                           temp |-> temp,
                           humidity |-> Num(500)])

SpecBuffer == InitBuffer /\ [][NextBuffer]_vars

\* ------------------------------------------------------------ the historical window alone
\* Date.now() is read at StartNow plus 0 .. MaxClockSteps steps of ClockStepMs
MaxClockSteps == 10
ClockStepMs == 1234567

Clock == { plusMs(StartNow, k * ClockStepMs) : k \in 0..MaxClockSteps }

\* the ranges of the select, and one it does not offer
TimeRanges == {"24h", "7d", "3m", "1y"}

\* the select's onChange with the effect of the render it causes:
\* setHistoricalData(createHistoricalData(timeRange)); the same value renders nothing
setTimeRange(range) ==
    /\ range # timeRange
    /\ timeRange' = range
    /\ \E t \in Clock, rnd \in HistoryStreams :
          /\ notBefore(t, dateNow)
          /\ dateNow' = t
          /\ historicalData' = createHistoricalData(range, t, rnd)
    /\ lastCall' = <<"setTimeRange", range>>
    /\ UNCHANGED <<view, activeTab, thresholds, iotThresholds, localThresholds, localIsActive,
                   validationError, deviceData, liveDataHistory, tickTimer, liveTimer, now,
                   uncaught, tickCount, ticksSinceAppend, events, appended, appendedFor,
                   downloads>>
    /\ UNCHANGED <<committed, tickThresholds>>

InitHistory == InitFixed /\ \E rnd \in HistoryStreams : InitHistorical(rnd)

NextHistory == \E range \in TimeRanges : setTimeRange(range)

SpecHistory == InitHistory /\ [][NextHistory]_vars

\* ------------------------------------------------------------ the export alone
\* rows of the series handed to the export
MaxRows == 3

\* points a window may hold: the epoch, the last ms of a leap day, the mount, a year's end
CsvPoints ==
    { [timestamp |-> [day |-> 0, ms |-> 0], time |-> 0,
       temp |-> Num(200), humidity |-> Num(500)],
      [timestamp |-> [day |-> 19782, ms |-> DayMs - 1], time |-> 1439,
       temp |-> Num(155), humidity |-> Num(749)],
      [timestamp |-> StartNow, time |-> 30,
       temp |-> Num(300), humidity |-> Num(305)],
      [timestamp |-> [day |-> 20453, ms |-> 45296789], time |-> 754,
       temp |-> Num(221), humidity |-> Num(400)] }

CsvInputs == UNION { [1..n -> CsvPoints] : n \in 0..MaxRows }

\* HistoricalDataTab.handleExport: the three exported fields of every point,
\* convertToCsv, downloadCsv
handleExport ==
    /\ LET dataToExport == [i \in 1..Len(historicalData) |->
                               [timestamp |-> historicalData[i].timestamp,
                                temp |-> historicalData[i].temp,
                                humidity |-> historicalData[i].humidity]]
       IN  downloads' = <<convertToCsv(dataToExport)>>
    /\ lastCall' = <<"handleExport">>
    /\ UNCHANGED <<view, activeTab, thresholds, iotThresholds, localThresholds, localIsActive,
                   validationError, deviceData, liveDataHistory, tickTimer, liveTimer, now,
                   uncaught, tickCount, ticksSinceAppend, events, appended, appendedFor,
                   timeRange, dateNow, historicalData>>
    /\ UNCHANGED <<committed, tickThresholds>>

InitCsv ==
    /\ InitFixed
    /\ timeRange = "24h"
    /\ dateNow = StartNow
    /\ historicalData \in CsvInputs
    /\ downloads = <<>>

NextCsv == handleExport

SpecCsv == InitCsv /\ [][NextCsv]_vars

\* ---------------------------------------------------------------------------
\* The running simulation, without end: the threshold tab is open, its
\* fields are edited and saved again and again while the tick timer counts
\* down. The counters that bound the behaviours of Spec (events, now,
\* tickCount, ticksSinceAppend) stand still here; no action of this
\* specification reads them, and the clock is read by the live monitor only

\* the values typed into the minimum-temperature field
RunningInputs == {Num(150), Num(180)}

\* after login and a click on the threshold tab, before any time has passed
InitRunning ==
    /\ view = "dashboard"
    /\ activeTab = "threshold"
    /\ iotThresholds = NoItem
    /\ thresholds = loadThresholds(iotThresholds)
    /\ tickThresholds = thresholds
    /\ localThresholds = thresholds
    /\ localIsActive = TRUE
    /\ validationError = "null"
    /\ deviceData = initialData([i \in 1..StreamLen |-> 0])
    /\ liveDataHistory = <<>>
    /\ tickTimer = setInterval
    /\ liveTimer = Cleared
    /\ now = 0
    /\ uncaught = "none"
    /\ tickCount = 0
    /\ ticksSinceAppend = 0
    /\ events = 0
    /\ lastCall = <<>>
    /\ appended = <<>>
    /\ appendedFor = <<>>
    /\ committed = <<>>
    /\ InitHistorical([k \in 1..(2 * 168) |-> 0])

counters == <<events, now, tickCount, ticksSinceAppend>>

handleChangeRunning ==
    /\ \E value \in RunningInputs : handleChangeBody("temp", "min", value)
    /\ UNCHANGED counters

handleSaveRunning == handleSaveBody /\ UNCHANGED counters

TickRunning == TickBody /\ UNCHANGED counters

ElapseRunning == ElapseBody /\ UNCHANGED counters

NextRunning ==
    \/ handleChangeRunning
    \/ handleSaveRunning
    \/ TickRunning
    \/ ElapseRunning

\* The browser runs the callback of a due timer, and time passes while no
\* callback is due; the user is free to edit and save, or not to
SpecRunning ==
    /\ InitRunning
    /\ [][NextRunning]_vars
    /\ WF_vars(TickRunning)
    /\ WF_vars(ElapseRunning)

\* ------------------------------------------------------------ claims
TickStep == lastCall' = <<"Tick">>
SaveStep == lastCall' = <<"handleSave">>

\* C1: a tick leaves the temperature and humidity of every device that is not
\* powered exactly as they were, the first tick after the seeding included
C1_UnpoweredFrozen ==
    [][TickStep =>
          \A d \in DeviceIds :
             ~deviceData[d].status =>
                /\ deviceData'[d].temp = deviceData[d].temp
                /\ deviceData'[d].humidity = deviceData[d].humidity]_vars

\* C2: the temperature a tick stores for a powered device lies within
\* [temp.min - 5, temp.max + 5] and the humidity within
\* [humidity.min - 10, humidity.max + 10] of the thresholds the tick ran with
C2_TickWithinClamp ==
    [][TickStep =>
          \A d \in DeviceIds :
             deviceData[d].status =>
                /\ deviceData'[d].temp >= thresholds.temp.min - Num(50)
                /\ deviceData'[d].temp <= thresholds.temp.max + Num(50)
                /\ deviceData'[d].humidity >= thresholds.humidity.min - Num(100)
                /\ deviceData'[d].humidity <= thresholds.humidity.max + Num(100)]_vars

\* a tick has just stored, for a powered device whose reading was below the
\* range, the lower end temp.min - 5 of the range
C2_Witness ==
    /\ lastCall = <<"Tick">>
    /\ \E d \in DeviceIds :
          /\ deviceData[d].status
          /\ deviceData[d].temp = thresholds.temp.min - Num(50)
          /\ deviceData[d].humidity = thresholds.humidity.min - Num(100)

\* C3: one firing of the tick applies one increment: what a powered device
\* holds after it is the rounded clamp of a value within 0.5 (temperature)
\* and 1.0 (humidity) of what it held before
C3_OneIncrementPerTick ==
    [][TickStep =>
          \A d \in DeviceIds :
             deviceData[d].status =>
                /\ \E x \in (deviceData[d].temp - Num(5)) .. (deviceData[d].temp + Num(5)) :
                      deviceData'[d].temp = toFixed1(clampTemp(x, thresholds))
                /\ \E x \in (deviceData[d].humidity - Num(10)) .. (deviceData[d].humidity + Num(10)) :
                      deviceData'[d].humidity = toFixed1(clampHumidity(x, thresholds))]_vars

\* C4: getDeviceCurrentData reports tempAlert exactly when the temperature is
\* below temp.min or above temp.max, and humidityAlert likewise; a reading on
\* a bound does not alert
C4_AlertIffOutside ==
    \A d \in DeviceIds :
       LET r == getDeviceCurrentData(deviceData, thresholds, d)
       IN  /\ r.tempAlert <=> (deviceData[d].temp < thresholds.temp.min
                                 \/ deviceData[d].temp > thresholds.temp.max)
           /\ r.humidityAlert <=> (deviceData[d].humidity < thresholds.humidity.min
                                     \/ deviceData[d].humidity > thresholds.humidity.max)

\* one device reads exactly temp.max and does not alert on it while a reading
\* outside its range alerts
C4_Witness ==
    /\ \E d \in DeviceIds :
          /\ deviceData[d].temp = thresholds.temp.max
          /\ ~getDeviceCurrentData(deviceData, thresholds, d).tempAlert
    /\ \E d \in DeviceIds :
          /\ deviceData[d].humidity > thresholds.humidity.max
          /\ getDeviceCurrentData(deviceData, thresholds, d).humidityAlert

\* C5: a save of a draft with temp.max <= temp.min or humidity.max <=
\* humidity.min sets the error of the failing metric, temperature first, and
\* leaves the active and the persisted ThresholdSet as they were
C5_InvalidSaveRejected ==
    [][(/\ SaveStep
        /\ \/ localThresholds.temp.max <= localThresholds.temp.min
           \/ localThresholds.humidity.max <= localThresholds.humidity.min) =>
          /\ validationError' = IF localThresholds.temp.max <= localThresholds.temp.min
                                 THEN TempError ELSE HumidityError
          /\ thresholds' = thresholds
          /\ iotThresholds' = iotThresholds]_vars

\* a save has just been rejected for the humidity range, the temperature
\* range of the draft being valid
C5_Witness ==
    /\ lastCall = <<"handleSave">>
    /\ validationError = HumidityError
    /\ localThresholds.temp.max > localThresholds.temp.min
    /\ localThresholds.humidity.max <= localThresholds.humidity.min

\* C6: toggleStatus with an id that is not in the readings mapping raises no
\* error and changes no device's entry
C6_UnknownToggleNoOp ==
    [][\A id \in ToggleInputs \ DeviceIds :
          lastCall' = <<"toggleStatus", id>> =>
             /\ uncaught' = "none"
             /\ deviceData' = deviceData]_vars

\* C7: while the live monitor is mounted an append follows every tick before
\* the next tick fires: no two ticks without an append between them
C7_AppendAfterEveryTick == LiveMounted => ticksSinceAppend <= 1

\* C8: the buffer never holds more than 10 entries and is always the last 10
\* (or fewer) appended points in append order: an append to a full buffer
\* drops the oldest entry and puts the new one at the tail
C8_BoundedFifo ==
    /\ Len(liveDataHistory) <= 10
    /\ LET n == Len(appended)
           k == Min(n, 10)
       IN  liveDataHistory = SubSeq(appended, n - k + 1, n)

\* after 11 appends the buffer holds 10 entries and the first appended is gone
C8_Witness ==
    /\ Len(appended) = 11
    /\ Len(liveDataHistory) = 10
    /\ \A i \in 1..Len(liveDataHistory) : liveDataHistory[i] # appended[1]
    /\ liveDataHistory[10] = appended[11]

\* C9: the window holds 24 points an hour apart for "24h" and for a range
\* that is not recognised, 168 an hour apart for "7d", 90 a day apart for
\* "3m"; point i (from 0) is stamped now - (count - i) * step, so consecutive
\* points are one step apart and the last is one step before now
C9_GenerateWindow ==
    LET n == Len(historicalData)
        expectedCount == CASE timeRange = "7d" -> 168
                           [] timeRange = "3m" -> 90
                           [] OTHER -> 24
        expectedStep == IF timeRange = "3m" THEN 86400000 ELSE 3600000
    IN  /\ n = expectedCount
        /\ \A j \in 1..n :
              historicalData[j].timestamp = minusMs(dateNow, n - (j - 1), expectedStep)
        /\ \A j \in 1..(n - 1) :
              diffMs(historicalData[j + 1].timestamp, historicalData[j].timestamp) = expectedStep
        /\ diffMs(dateNow, historicalData[n].timestamp) = expectedStep

\* the range "3m" has just been selected at a later reading of the clock and
\* the window holds 90 points, the first 90 days before that reading
C9_Witness ==
    /\ lastCall = <<"setTimeRange", "3m">>
    /\ dateNow # StartNow
    /\ Len(historicalData) = 90
    /\ historicalData[1].timestamp.day = dateNow.day - 90
    /\ historicalData[90].timestamp.day = dateNow.day - 1

\* reading the exported text back
\* the day number of a civil date
daysFromCivil(year, month, date) ==
    LET y == IF month <= 2 THEN year - 1 ELSE year
        era == y \div 400
        yoe == y - era * 400
        doy == ((153 * (IF month > 2 THEN month - 3 ELSE month + 9) + 2) \div 5) + date - 1
        doe == yoe * 365 + (yoe \div 4) - (yoe \div 100) + doy
    IN  era * 146097 + doe - 719468

\* text has the shape YYYY-MM-DDTHH:mm:ss.sssZ with every field in its range
isIsoText(text) ==
    /\ Len(text) = 24
    /\ text[5] = "-" /\ text[8] = "-" /\ text[11] = "T"
    /\ text[14] = ":" /\ text[17] = ":" /\ text[20] = "." /\ text[24] = "Z"
    /\ isDigits(SubSeq(text, 1, 4)) /\ isDigits(SubSeq(text, 6, 7))
    /\ isDigits(SubSeq(text, 9, 10)) /\ isDigits(SubSeq(text, 12, 13))
    /\ isDigits(SubSeq(text, 15, 16)) /\ isDigits(SubSeq(text, 18, 19))
    /\ isDigits(SubSeq(text, 21, 23))
    /\ parseInt(SubSeq(text, 6, 7)) \in 1..12
    /\ parseInt(SubSeq(text, 9, 10)) \in 1..31
    /\ parseInt(SubSeq(text, 12, 13)) \in 0..23
    /\ parseInt(SubSeq(text, 15, 16)) \in 0..59
    /\ parseInt(SubSeq(text, 18, 19)) \in 0..59

\* the timestamp an ISO-8601 UTC text denotes
dateParse(text) ==
    [day |-> daysFromCivil(parseInt(SubSeq(text, 1, 4)), parseInt(SubSeq(text, 6, 7)),
                           parseInt(SubSeq(text, 9, 10))),
     ms |-> parseInt(SubSeq(text, 12, 13)) * 3600000 + parseInt(SubSeq(text, 15, 16)) * 60000
            + parseInt(SubSeq(text, 18, 19)) * 1000 + parseInt(SubSeq(text, 21, 23))]

HeaderText ==
    << "T", "i", "m", "e", "s", "t", "a", "m", "p", ",", "T", "e", "m", "p",
       "e", "r", "a", "t", "u", "r", "e", ",", "H", "u", "m", "i", "d", "i",
       "t", "y" >>

EpochExport ==
    << "T", "i", "m", "e", "s", "t", "a", "m", "p", ",", "T", "e", "m", "p",
       "e", "r", "a", "t", "u", "r", "e", ",", "H", "u", "m", "i", "d", "i",
       "t", "y", "\n", "1", "9", "7", "0", "-", "0", "1", "-", "0", "1", "T",
       "0", "0", ":", "0", "0", ":", "0", "0", ".", "0", "0", "0", "Z", ",",
       "2", "0", ",", "5", "0", "\n" >>

\* C10: the text exported for an empty series is empty, without a header; for
\* n >= 1 points it is the line Timestamp,Temperature,Humidity and then n
\* lines, the i-th reading back as the i-th point's timestamp (ISO-8601, UTC),
\* temperature and humidity, every line ended by a newline; the one point
\* {0, 20.0, 50.0} exports as the header and 1970-01-01T00:00:00.000Z,20,50
C10_Serialize ==
    downloads # <<>> =>
       LET csv == downloads[1]
           n == Len(historicalData)
           lines == split(csv, "\n")
       IN  IF n = 0 THEN csv = <<>>
           ELSE /\ Len(lines) = n + 2
                /\ lines[n + 2] = <<>>
                /\ lines[1] = HeaderText
                /\ \A i \in 1..n :
                      LET f == split(lines[i + 1], ",")
                      IN  /\ Len(f) = 3
                          /\ isIsoText(f[1])
                          /\ dateParse(f[1]) = historicalData[i].timestamp
                          /\ isNumberText(f[2])
                          /\ parseFloat(f[2]) = historicalData[i].temp
                          /\ isNumberText(f[3])
                          /\ parseFloat(f[3]) = historicalData[i].humidity
                /\ (n = 1 /\ historicalData[1].timestamp = [day |-> 0, ms |-> 0]
                          /\ historicalData[1].temp = Num(200)
                          /\ historicalData[1].humidity = Num(500)) => csv = EpochExport

\* a series of three different points, one of them stamped on a leap day and
\* one with a whole-number reading, has been exported
C10_Witness ==
    /\ lastCall = <<"handleExport">>
    /\ downloads # <<>>
    /\ Len(downloads[1]) > 0
    /\ Len(historicalData) = 3
    /\ historicalData[1] # historicalData[2]
    /\ historicalData[2] # historicalData[3]
    /\ historicalData[1] # historicalData[3]
    /\ \E i \in 1..3 : historicalData[i].timestamp.day = 19782
    /\ \E i \in 1..3 : historicalData[i].temp = Num(300)

\* C11: at most one tick timer is armed at any moment, a commit that
\* re-establishes the tick effect included, and no more ticks have fired than
\* periods have passed
C11_OneTickTimer ==
    /\ Len(tickTimer) <= 1
    /\ tickCount * IntervalMs <= now

\* a commit of a new ThresholdSet has just re-established the tick effect in
\* the middle of a period: one timer is armed, a full period from due
C11_Witness ==
    /\ lastCall = <<"handleSave">>
    /\ validationError = "null"
    /\ thresholds # DEFAULT_THRESHOLDS
    /\ now > 0
    /\ now < IntervalMs
    /\ tickTimer = setInterval

\* C12: once the tree is torn down the tick timer is released, no tick fires
\* and the readings mapping does not change
C12_NoTickAfterTeardown ==
    [][/\ uncaught' # "none" => tickTimer' = Cleared
       /\ uncaught # "none" => (~TickStep /\ deviceData' = deviceData)]_vars

\* the tree was torn down after the first tick and a full period has passed
\* since without a second tick
C12_Witness ==
    /\ uncaught # "none"
    /\ tickCount = 1
    /\ now >= 2 * IntervalMs
    /\ tickTimer = Cleared

\* C13: the persisted text, when there is one, reads back as the active
\* ThresholdSet; once a set has been committed, it is the active set and what
\* a restart would load; with nothing committed and nothing persisted the
\* active set and what a restart would load are 18/25, 40/60
C13_PersistedIsActive ==
    /\ iotThresholds # NoItem => JSONparse(iotThresholds[1]) = thresholds
    /\ committed # <<>> =>
          /\ thresholds = committed[1]
          /\ loadThresholds(iotThresholds) = committed[1]
    /\ (committed = <<>> /\ iotThresholds = NoItem) =>
          /\ thresholds = [temp |-> [min |-> Num(180), max |-> Num(250)],
                           humidity |-> [min |-> Num(400), max |-> Num(600)]]
          /\ loadThresholds(iotThresholds) = thresholds

\* a set that is neither the default nor one persisted at the start has just
\* been committed and the persisted text is that set's
C13_Witness ==
    /\ lastCall = <<"handleSave">>
    /\ validationError = "null"
    /\ committed # <<>>
    /\ committed[1] # DEFAULT_THRESHOLDS
    /\ committed[1] # LowSet
    /\ committed[1] # HighSet
    /\ iotThresholds = <<JSONstringify(committed[1])>>

C15_ActiveAlwaysValid ==
    /\ [](/\ thresholds.temp.min < thresholds.temp.max
          /\ thresholds.humidity.min < thresholds.humidity.max)
    /\ [][/\ (\E type \in {"temp", "humidity"}, limit \in {"min", "max"} :
                 lastCall' = <<"handleChange", type, limit>>) => thresholds' = thresholds
          /\ thresholds' # thresholds => (SaveStep /\ thresholds' = localThresholds)]_vars

\* a save of a draft whose temperature range is empty has just been rejected:
\* the active set differs from the draft and is valid
C15_Witness ==
    /\ lastCall = <<"handleSave">>
    /\ validationError = TempError
    /\ localThresholds.temp.max <= localThresholds.temp.min
    /\ thresholds # localThresholds
    /\ thresholds.temp.min < thresholds.temp.max

\* C16: toggleStatus of a known device negates that device's powered flag and
\* changes nothing else in the mapping; toggling the same device twice gives
\* the mapping back; the mapping's ids are the registry's in every state; a
\* tick changes no powered flag
C16_ToggleFrame ==
    /\ [](/\ DOMAIN deviceData = {"dev-001", "dev-002", "dev-003"}
          /\ \A id \in DeviceIds :
                toggleUpdater(toggleUpdater(deviceData, id), id) = deviceData)
    /\ [][/\ \A id \in DeviceIds :
                lastCall' = <<"toggleStatus", id>> =>
                   /\ deviceData'[id].status = ~deviceData[id].status
                   /\ deviceData'[id].temp = deviceData[id].temp
                   /\ deviceData'[id].humidity = deviceData[id].humidity
                   /\ \A other \in DeviceIds \ {id} : deviceData'[other] = deviceData[other]
          /\ TickStep => \A d \in DeviceIds : deviceData'[d].status = deviceData[d].status]_vars

\* after a tick, the unpowered device has just been switched on while the
\* other two are still powered
C16_Witness ==
    /\ lastCall = <<"toggleStatus", "dev-003">>
    /\ tickCount >= 1
    /\ \A d \in DeviceIds : deviceData[d].status

\* C17: every entry the buffer holds was read from the device that is
\* selected now (the first powered device, else the first device)
C17_BufferOneDevice ==
    LET n == Len(appendedFor)
        k == Len(liveDataHistory)
    IN  \A i \in (n - k + 1)..n :
           appendedFor[i] = activeDeviceId(deviceData, thresholds)

\* C18: the mapping a reader obtained before a tick shows, after the tick,
\* the temperature and humidity it showed before
C18_TickLeavesSnapshot ==
    [][TickStep => prevDataAfter(deviceData, deviceData') = deviceData]_vars

\* the mappings a tick may store from data with the ThresholdSet th: one run
\* of the updater, or two
TickResults(data, th) ==
    { tickUpdater(data, th, rnd) : rnd \in RandomStreams }
    \cup { tickUpdater(tickUpdater(data, th, rnd1), th, rnd2) :
              rnd1 \in RandomStreams, rnd2 \in RandomStreams }

\* C19: the armed tick callback holds the active ThresholdSet, which is the
\* one committed last; what a tick stores is what the updater yields with that
\* set; the alert flags are those of the readings against that set
C19_TicksUseCommitted ==
    /\ [](/\ tickThresholds = thresholds
          /\ committed # <<>> => thresholds = committed[1]
          /\ \A d \in DeviceIds :
                LET r == getDeviceCurrentData(deviceData, thresholds, d)
                    th == IF committed # <<>> THEN committed[1] ELSE thresholds
                IN  /\ r.tempAlert = (deviceData[d].temp > th.temp.max
                                        \/ deviceData[d].temp < th.temp.min)
                    /\ r.humidityAlert = (deviceData[d].humidity > th.humidity.max
                                            \/ deviceData[d].humidity < th.humidity.min))
    /\ [][(TickStep /\ committed # <<>>) =>
             deviceData' \in TickResults(deviceData, committed[1])]_vars

\* a tick after a commit that raised temp.max from 10 to 15 has stored a
\* temperature above 15, the upper end of the clamp of the earlier set
C19_Witness ==
    /\ lastCall = <<"Tick">>
    /\ committed # <<>>
    /\ committed[1].temp.max = Num(150)
    /\ committed[1].temp.min = Num(50)
    /\ \E d \in DeviceIds : deviceData[d].status /\ deviceData[d].temp > Num(150)

\* C20: while the simulation runs, the tick keeps firing: from every
\* reachable state a tick eventually fires, however often thresholds are
\* committed in between
C20_TickKeepsFiring == []<>(lastCall = <<"Tick">>)

====
